---- MODULE Spec2Model ----
(***************************************************************************)
(* concatfs: a FUSE overlay in which a file whose basename contains        *)
(* "-concat-" is a description: a list of backing-file slices that the     *)
(* filesystem presents as one concatenated, read-only byte stream.         *)
(*                                                                         *)
(* The model follows src/src/concatfs.c.  Text (paths, description files)  *)
(* is a sequence of one-character strings; a file name is one token of     *)
(* such a sequence.  A pointer is the record it points to, or NULL; the    *)
(* two intrusive lists (open_files, chunks) are sequences in list order.   *)
(***************************************************************************)
EXTENDS Integers, Sequences, FiniteSets, TLC

VARIABLES
    files,       \* underlying storage: file name -> content, or NoFile
    dirSize,     \* st_size the host reports for the source directory
    fdt,         \* the process's descriptor table: number -> open file, or Closed
    open_files,  \* the registry list, head first (static open_files)
    held,        \* handles the kernel holds: [fh, name] returned and not yet released
    thr,         \* per worker thread: the filesystem operation it is executing
    crashed,     \* the process received SIGSEGV
    ioFaults,    \* whether the host may fail or cut short a positional read
    the_lock,    \* the mutex: the thread that holds it, or Unlocked
    head,        \* the registry at pointer level: static open_files, a node or Nil
    heap,        \* node -> [fd, next]: the concat_file objects linked by next
    rthr         \* per thread: the registry call it is executing, step by step

\* The registry at the level of single pointer accesses.
regVars == <<the_lock, head, heap, rthr>>

vars == <<files, dirSize, fdt, open_files, held, thr, crashed, ioFaults, regVars>>

----------------------------------------------------------------------------
(* Bounds of the model *)

MaxLines == 2        \* lines of a description under SpecParse
MaxFd == 8           \* highest descriptor number the process may hold
MaxCount == 4        \* largest byte count of a read request under SpecRead
MaxHeld == 2         \* handles the kernel holds at once under Spec
MaxKey == 5          \* highest key of a registry call under SpecReg

----------------------------------------------------------------------------
(* Program constants *)

PATH_MAX == 4096
\* off_t is 64 bits in the build; TLC's integers are 32 bits wide, so the
\* macro is kept in its shape at the widest width TLC represents.  No value
\* of the model comes near either limit.
OffTBits == 32
OFF_T_MAX == ((2 ^ (OffTBits - 2)) - 1) * 2 + 1

EINVAL == 22
EBADF == 9
EISDIR == 21
EIO == 5
ENOENT == 2
EMFILE == 24

MIN(a, b) == IF a < b THEN a ELSE b
MAX(a, b) == IF a > b THEN a ELSE b
\* CLAMP without its lower bound: a variant C8 must tell from the code's.
CLAMP_NoFloor(x, m, M) == MIN(M, x)
CLAMP(x, m, M) == MIN(M, MAX(x, m))

NULL == [null |-> TRUE]
Closed == [closed |-> TRUE]
NL == "\n"

----------------------------------------------------------------------------
(* The host: storage and descriptors *)

Threads == {"t1", "t2"}

\* src_dir, set once in main()
SrcDir == <<"/", "s">>

DataNames == {"a", "b", "e", "z"}
VirtualNames == {"m-concat-x", "n-concat-y", "c-concat-z"}
PlainNames == {"p"}
Names == DataNames \cup VirtualNames \cup PlainNames
Dir == "."
NoEnt == "<ENOENT>"
\* The content of a name that does not exist: no file holds this token.
NoFile == <<NoEnt>>

\* is_concatfs_file: the basename contains "-concat-"
is_concatfs_file(name) == name \in VirtualNames

\* The path a handler builds: snprintf(fpath, ..., "%s/%s", src_dir, path),
\* where the kernel's path is "/" followed by the name.
Fpath(name) == SrcDir \o <<"/">> \o <<"/", name>>

RECURSIVE Collapse(_)
\* Path resolution ignores repeated separators.
Collapse(p) ==
    IF Len(p) < 2 THEN p
    ELSE IF p[1] = "/" /\ p[2] = "/" THEN Collapse(Tail(p))
    ELSE <<p[1]>> \o Collapse(Tail(p))

\* What a path without repeated separators names on the host.
ResolveCollapsed(p, n) ==
    IF p = SrcDir \/ p = SrcDir \o <<"/">> THEN Dir
    ELSE IF /\ Len(p) = n + 2
            /\ SubSeq(p, 1, n + 1) = SrcDir \o <<"/">>
            /\ p[n + 2] \in Names
            /\ files[p[n + 2]] # NoFile
         THEN p[n + 2]
    ELSE NoEnt

\* What a path names on the host: a file name, Dir, or NoEnt.
Resolve(path) == ResolveCollapsed(Collapse(path), Len(SrcDir))

\* stat(2) of what r names: whether it succeeds, and st_size
StatOf(r) ==
    IF r = NoEnt THEN [ok |-> FALSE, size |-> 0]
    ELSE IF r = Dir THEN [ok |-> TRUE, size |-> dirSize]
    ELSE [ok |-> TRUE, size |-> Len(files[r])]

\* stat(2) of a path
Stat(path) == StatOf(Resolve(path))

FdNums == 3 .. MaxFd

\* The lowest free descriptor number of table t, or -1 (EMFILE).
LowestFree(t) ==
    IF \E n \in FdNums : t[n] = Closed
    THEN CHOOSE n \in FdNums : t[n] = Closed /\ \A k \in FdNums : k < n => t[k] # Closed
    ELSE -1

\* open(2) of what r names, n the lowest free number of table t
OpenAt(t, r, n, acc) ==
    IF r = NoEnt THEN [fd |-> -1, fdt |-> t, err |-> ENOENT]
    ELSE IF n = -1 THEN [fd |-> -1, fdt |-> t, err |-> EMFILE]
    ELSE [fd |-> n, fdt |-> [t EXCEPT ![n] = [name |-> r, acc |-> acc]], err |-> 0]

\* open(2) of a path in table t: [fd, fdt, err]; err is the errno it sets, 0
\* when it leaves errno alone
SysOpen(t, path, acc) == OpenAt(t, Resolve(path), LowestFree(t), acc)

\* dup(2) of fd, n the lowest free number of table t
DupAt(t, fd, n) ==
    IF fd \notin FdNums \/ t[fd] = Closed THEN [fd |-> -1, fdt |-> t, err |-> EBADF]
    ELSE IF n = -1 THEN [fd |-> -1, fdt |-> t, err |-> EMFILE]
    ELSE [fd |-> n, fdt |-> [t EXCEPT ![n] = t[fd]], err |-> 0]

\* dup(2)
SysDup(t, fd) == DupAt(t, fd, LowestFree(t))

\* close(2); closing -1 or a closed number fails with EBADF and changes nothing
SysClose(t, fd) ==
    IF fd \in FdNums THEN [t EXCEPT ![fd] = Closed] ELSE t

----------------------------------------------------------------------------
(* The description parser *)

RECURSIVE FgetsEnd(_, _, _)
\* fgets(fpath, sizeof(fpath), fp) at position pos of the stream: the index of
\* the last character stored (pos - 1: nothing was read), reading at most n
\* characters and stopping after a newline.
FgetsEnd(data, pos, n) ==
    IF n = 0 \/ pos > Len(data) THEN pos - 1
    ELSE IF data[pos] = NL THEN pos
    ELSE FgetsEnd(data, pos + 1, n - 1)

Front(s) == SubSeq(s, 1, Len(s) - 1)

\* fpath[strlen(fpath) - 1] = 0
StripLast(line) == Front(line)

Take(s, n) == IF Len(s) <= n THEN s ELSE SubSeq(s, 1, n)

\* The path the loop hands to try_parse_line_offsets.
Tpath(fpath, base_dir) ==
    IF Len(fpath) > 0 /\ fpath[1] = "/"
    THEN Take(fpath, PATH_MAX)
    ELSE Take(base_dir \o <<"/">> \o fpath, PATH_MAX - 1)

RECURSIVE Strchr(_, _, _)
\* strchr from index i: the index of the first c, or 0
Strchr(s, c, i) ==
    IF i > Len(s) THEN 0
    ELSE IF s[i] = c THEN i
    ELSE Strchr(s, c, i + 1)

Digits == <<"0", "1", "2", "3", "4", "5", "6", "7", "8", "9">>
IsDigit(c) == \E d \in 1 .. 10 : Digits[d] = c
DigitVal(c) == (CHOOSE d \in 1 .. 10 : Digits[d] = c) - 1

RECURSIVE ScanDigits(_, _, _)
ScanDigits(s, i, acc) ==
    IF i <= Len(s) /\ IsDigit(s[i])
    THEN ScanDigits(s, i + 1, acc * 10 + DigitVal(s[i]))
    ELSE acc

RECURSIVE SkipSpace(_, _)
SkipSpace(s, i) == IF i <= Len(s) /\ s[i] = " " THEN SkipSpace(s, i + 1) ELSE i

\* The conversion from its first digit k on, neg telling a minus sign.
ScanUnsigned(s, neg, k, dflt) ==
    IF k <= Len(s) /\ IsDigit(s[k])
    THEN (IF neg THEN -1 ELSE 1) * ScanDigits(s, k, 0)
    ELSE dflt

\* The conversion from its first non-blank character j on.
ScanSigned(s, j, dflt) ==
    ScanUnsigned(s, j <= Len(s) /\ s[j] = "-",
                 IF j <= Len(s) /\ s[j] \in {"-", "+"} THEN j + 1 ELSE j, dflt)

\* sscanf(s + i - 1, "%jd", &v): the value stored in v, which held dflt
Sscanf(s, i, dflt) == ScanSigned(s, SkipSpace(s, i), dflt)

ParseFail == [ok |-> FALSE, startOffset |-> 0, length |-> 0, path |-> <<>>]

\* The line as the cut at offsetsLineStart leaves it.
CutPath(line, offsetsLineStart) ==
    IF offsetsLineStart # 0 THEN SubSeq(line, 1, offsetsLineStart - 1) ELSE line

\* *startOffset before clamping
ScanStart(line, offsetsLineStart) ==
    IF offsetsLineStart # 0 THEN Sscanf(line, offsetsLineStart + 1, -1) ELSE -1

\* *length before clamping, lengthLineStart the index of the second ':'
ScanLengthAt(line, lengthLineStart) ==
    IF lengthLineStart # 0 THEN Sscanf(line, lengthLineStart + 1, OFF_T_MAX)
    ELSE OFF_T_MAX

ScanLength(line, offsetsLineStart) ==
    ScanLengthAt(line, IF offsetsLineStart # 0
                       THEN Strchr(line, ":", offsetsLineStart + 1) ELSE 0)

\* *length = CLAMP(*length, 1, stbuf.st_size - *startOffset)
ClampLength(path, size, s, l0) ==
    [ok |-> TRUE, startOffset |-> s, length |-> CLAMP(l0, 1, size - s),
     path |-> path]

\* *startOffset = CLAMP(*startOffset, 0, stbuf.st_size - 1), then the length
ClampStart(path, size, s0, l0) ==
    ClampLength(path, size, CLAMP(s0, 0, size - 1), l0)

\* try_parse_line_offsets from the stat of the path on
ParseStat(line, offsetsLineStart, path, stbuf) ==
    IF ~stbuf.ok THEN ParseFail
    ELSE IF stbuf.size < 1 THEN ParseFail
    ELSE ClampStart(path, stbuf.size, ScanStart(line, offsetsLineStart),
                    ScanLength(line, offsetsLineStart))

\* try_parse_line_offsets from the cut at the first ':' on
ParseFields(line, path, offsetsLineStart) ==
    ParseStat(line, offsetsLineStart, path, Stat(path))

\* try_parse_line_offsets: ok, *startOffset, *length, and the line as the
\* call leaves it (cut at the first ':', never restored)
try_parse_line_offsets(line) ==
    IF Len(line) = 0 THEN ParseFail
    ELSE ParseFields(line, CutPath(line, Strchr(line, ":", 1)),
                     Strchr(line, ":", 1))

RECURSIVE DropTrailingSlashes(_)
DropTrailingSlashes(p) ==
    IF Len(p) > 1 /\ p[Len(p)] = "/" THEN DropTrailingSlashes(Front(p)) ELSE p

RECURSIVE DropLastComponent(_)
DropLastComponent(p) ==
    IF Len(p) > 0 /\ p[Len(p)] # "/" THEN DropLastComponent(Front(p)) ELSE p

DirnameOf(q) == IF q = <<>> THEN <<".">> ELSE DropTrailingSlashes(q)

\* dirname(3)
Dirname(p) == DirnameOf(DropLastComponent(DropTrailingSlashes(p)))

\* A variant that assigns where the code accumulates: C5 must tell it from
\* the code's.
AddLength_Assign(rv, length) == [rv EXCEPT !.fsize = length]

\* rv->fsize += length
AddLength(rv, length) == [rv EXCEPT !.fsize = @ + length]

\* A variant that links the new chunk in front: C7 must tell it from the
\* code's.
LinkChunk_Front(chunks, c_n) == <<c_n>> \o chunks

\* The list with c_n linked behind its last chunk c (or as rv->chunks).
LinkChunk(chunks, c_n) == Append(chunks, c_n)

RECURSIVE ParseLines(_, _, _, _, _, _)

\* The chunk of an accepted line r whose open(tpath, O_RDONLY) gave o is
\* linked, and the loop goes on behind position e.
OpenedChunk(data, e, base_dir, fd, rv, r, o) ==
    ParseLines(data, e + 1, base_dir, fd,
               [rv EXCEPT !.chunks =
                   LinkChunk(@, [fd |-> o.fd, startOffset |-> r.startOffset,
                                 fsize |-> r.length])],
               o.fdt)

\* A variant that builds chunks in a size-only parse too: C11 must tell it
\* from the code's.
WantChunks_Always(fd) == TRUE

\* if (fd >= 0): a full parse, which builds the chunk list
WantChunks(fd) == fd >= 0

\* The loop body from the result r of try_parse_line_offsets on.
ParsedLine(data, e, base_dir, fd, rv, t, r) ==
    IF ~r.ok THEN ParseLines(data, e + 1, base_dir, fd, rv, t)
    ELSE IF WantChunks(fd)
    THEN OpenedChunk(data, e, base_dir, fd, AddLength(rv, r.length), r,
                     SysOpen(t, r.path, "r"))
    ELSE ParseLines(data, e + 1, base_dir, fd, AddLength(rv, r.length), t)

\* One fgets that stored the characters up to index e.
ParseLine(data, pos, e, base_dir, fd, rv, t) ==
    IF e < pos THEN [rv |-> rv, fdt |-> t]
    ELSE ParsedLine(data, e, base_dir, fd, rv, t,
                    try_parse_line_offsets(
                        Tpath(StripLast(SubSeq(data, pos, e)), base_dir)))

\* The while (fgets(...)) loop of open_concat_file from stream position pos:
\* rv is the object so far, t the descriptor table.
ParseLines(data, pos, base_dir, fd, rv, t) ==
    ParseLine(data, pos, FgetsEnd(data, pos, PATH_MAX), base_dir, fd, rv, t)

\* fdopen(d, "r"): the C library refuses a descriptor that is not open or
\* whose access mode does not allow reading
FdopenOk(t, d) == d \in FdNums /\ t[d] # Closed /\ t[d].acc # "w"

\* What a stream on descriptor d of table t delivers.
StreamData(t, d) ==
    IF t[d].name = Dir THEN <<>> ELSE files[t[d].name]

\* fclose(fp) and return rv
CloseStream(d, r) == [rv |-> r.rv, fdt |-> SysClose(r.fdt, d)]

\* open_concat_file from the test of fp on; d is the result of the dup or
\* open behind the stream
ParseStream(fd, path, d) ==
    IF ~(IF fd >= 0 THEN FdopenOk(d.fdt, d.fd) ELSE d.fd # -1)
    THEN [rv |-> NULL, fdt |-> d.fdt]
    ELSE CloseStream(d.fd,
                     ParseLines(StreamData(d.fdt, d.fd), 1,
                                Dirname(Take(path, PATH_MAX + 1)), fd,
                                [fd |-> fd, fsize |-> 0, refcount |-> 1,
                                 chunks |-> <<>>],
                                d.fdt))

\* open_concat_file(fd, path) in descriptor table t:
\* [rv: the object or NULL, fdt]
open_concat_file(t, fd, path) ==
    ParseStream(fd, path,
                IF fd >= 0 THEN SysDup(t, fd) ELSE SysOpen(t, path, "r"))

RECURSIVE CloseChunks(_, _, _)
\* the for loop of close_concat_file from chunk i on
CloseChunks(t, chunks, i) ==
    IF i > Len(chunks) THEN t
    ELSE CloseChunks(SysClose(t, chunks[i].fd), chunks, i + 1)

\* close_concat_file(cf): the descriptor table it leaves
close_concat_file(t, cf) ==
    IF cf = NULL THEN t
    ELSE SysClose(CloseChunks(t, cf.chunks, 1), cf.fd)

\* get_concat_file_size from the test of the object c.rv on
SizeAndClose(c) ==
    IF c.rv = NULL THEN [rv |-> 0, fdt |-> c.fdt]
    ELSE [rv |-> c.rv.fsize, fdt |-> close_concat_file(c.fdt, c.rv)]

\* get_concat_file_size(path): [rv, fdt]
get_concat_file_size(t, path) == SizeAndClose(open_concat_file(t, -1, path))

----------------------------------------------------------------------------
(* The registry: the body each operation runs between lock() and unlock() *)

\* A variant that returns the head whatever the key: C9 must tell it from
\* the code's.
open_files_find_Head(list, fd) == IF list = <<>> THEN NULL ELSE list[1]

\* open_files_find(fd)
open_files_find(list, fd) ==
    IF \E i \in 1 .. Len(list) : list[i].fd = fd
    THEN list[CHOOSE i \in 1 .. Len(list) :
                  list[i].fd = fd /\ \A j \in 1 .. i - 1 : list[j].fd # fd]
    ELSE NULL

\* open_files_push_front(cf), cf not NULL
open_files_push_front(list, cf) == <<cf>> \o list

\* SubSeq without element i
Without(list, i) == SubSeq(list, 1, i - 1) \o SubSeq(list, i + 1, Len(list))

\* A variant that returns the object and leaves it linked: C13 must tell it
\* from the code's.
open_files_erase_Keep(list, fd) ==
    [rv |-> open_files_find(list, fd), list |-> list]

\* open_files_erase(fd): [rv, list]
open_files_erase(list, fd) ==
    IF Len(list) > 0 /\ list[1].fd = fd
    THEN [rv |-> list[1], list |-> Tail(list)]
    ELSE
        \* p: the first node whose successor carries fd
        IF \E i \in 1 .. Len(list) - 1 : list[i + 1].fd = fd
        THEN LET p == CHOOSE i \in 1 .. Len(list) - 1 :
                          list[i + 1].fd = fd
                          /\ \A j \in 1 .. i - 1 : list[j + 1].fd # fd
             IN  [rv |-> list[p + 1], list |-> Without(list, p + 1)]
        ELSE [rv |-> NULL, list |-> list]

----------------------------------------------------------------------------
(* The segmented read *)

\* A variant that starts every read on the first chunk with the offset
\* untouched: C22 must tell it from the code's.
Walk_Stay(chunks, c, offset) == [c |-> c, offset |-> offset]

RECURSIVE Walk(_, _, _)
\* for (; c && offset > c->fsize; c = c->next) offset -= c->fsize;
\* c is an index into chunks, Len(chunks) + 1 for the null pointer
Walk(chunks, c, offset) ==
    IF c <= Len(chunks) /\ offset > chunks[c].fsize
    THEN Walk(chunks, c + 1, offset - chunks[c].fsize)
    ELSE [c |-> c, offset |-> offset]

\* count > x with count a size_t and x an off_t: x is converted to unsigned,
\* so a negative x is larger than every count
CountExceeds(count, x) == x >= 0 /\ count > x

\* What pread(fd, buf, n, pos) delivers when the host neither fails nor cuts
\* the read short: [rv, data, err]
PreadHost(t, fd, n, pos) ==
    IF fd \notin FdNums \/ t[fd] = Closed \/ t[fd].acc = "w"
    THEN [rv |-> -1, data |-> <<>>, err |-> EBADF]
    ELSE IF t[fd].name = Dir THEN [rv |-> -1, data |-> <<>>, err |-> EISDIR]
    ELSE
        LET content == files[t[fd].name]
            k == MIN(n, MAX(0, Len(content) - pos))
        IN  [rv |-> k, data |-> SubSeq(content, pos + 1, pos + k), err |-> 0]

\* The outcomes of pread(fd, buf, n, pos): the host's, and when the host may
\* fault, an error or any shorter count (0: the file ended before pos).  A
\* request for no bytes does no I/O and cannot fault.
Pread(t, fd, n, pos) ==
    LET h == PreadHost(t, fd, n, pos)
    IN  {h} \cup
        IF ioFaults /\ h.rv >= 0 /\ n > 0
        THEN {[rv |-> -1, data |-> <<>>, err |-> EIO]}
             \cup {[rv |-> j, data |-> Take(h.data, j), err |-> 0] : j \in 0 .. h.rv - 1}
        ELSE {}

\* pwrite(fd, buf, size, offset) on a file's content
Pwrite(content, buf, offset) ==
    [i \in 1 .. MAX(Len(content), offset + Len(buf)) |->
        IF i > offset /\ i <= offset + Len(buf) THEN buf[i - offset]
        ELSE IF i <= Len(content) THEN content[i]
        ELSE "\\0"]

----------------------------------------------------------------------------
(* The filesystem operations, one worker thread each *)

Idle ==
    [pc |-> "idle", op |-> "none", name |-> "", fh |-> -1, cf |-> NULL,
     c |-> 0, offset |-> 0, count |-> 0, bytes_read |-> 0, buf |-> <<>>,
     rv |-> 0, size |-> 0, off |-> 0, st_size |-> 0, preads |-> <<>>]

\* The thread's reply to the kernel.
Reply(r, rv) == [r EXCEPT !.pc = "ret", !.rv = rv]

Start(op, name, fh) == [Idle EXCEPT !.op = op, !.name = name, !.fh = fh]

\* Another operation is in flight on the handle.
InFlight(fh, ops) ==
    \E u \in Threads : thr[u].pc # "idle" /\ thr[u].fh = fh /\ thr[u].op \in ops

\* The values errno can hold when no call of the handler has set it: what
\* earlier requests left on the worker thread (0: nothing failed yet; ENOENT:
\* the lstat of concatfs_getattr on a missing name; EBADF: the close(-1) of
\* a size-only parse).
StaleErrno == {0, ENOENT, EBADF}

\* concatfs_open up to the call of open_files_push_front
ConcatfsOpen(t, name, acc) ==
    /\ ~crashed
    /\ thr[t].pc = "idle"
    /\ LET o == SysOpen(fdt, Fpath(name), acc)
       IN  IF o.fd < 0
           THEN /\ thr' = [thr EXCEPT ![t] = Reply(Start("open", name, -1), -o.err)]
                /\ fdt' = fdt
           ELSE IF is_concatfs_file(name)
           THEN LET p == open_concat_file(o.fdt, o.fd, Fpath(name))
                IN  /\ thr' = [thr EXCEPT ![t] =
                               [Start("open", name, o.fd) EXCEPT
                                   !.pc = "push", !.cf = p.rv]]
                    /\ fdt' = p.fdt
           ELSE /\ thr' = [thr EXCEPT ![t] = Reply(Start("open", name, o.fd), 0)]
                /\ fdt' = o.fdt
    /\ UNCHANGED <<files, dirSize, open_files, held, crashed, ioFaults, regVars>>

\* open_files_push_front(open_concat_file(...)) and return 0.  With a null
\* argument the store cf->next = open_files goes through address 0, which
\* no process of the host has mapped: the process dies of SIGSEGV inside
\* the critical section.
OpenPush(t) ==
    /\ ~crashed
    /\ thr[t].pc = "push"
    /\ IF thr[t].cf = NULL
       THEN /\ crashed' = TRUE
            /\ thr' = [thr EXCEPT ![t].pc = "segv"]
            /\ open_files' = open_files
       ELSE /\ open_files' = open_files_push_front(open_files, thr[t].cf)
            /\ thr' = [thr EXCEPT ![t] = Reply(@, 0)]
            /\ crashed' = crashed
    /\ UNCHANGED <<files, dirSize, fdt, held, ioFaults, regVars>>

\* concatfs_create; the kernel sends it for a name that does not exist
ConcatfsCreate(t, name) ==
    /\ ~crashed
    /\ thr[t].pc = "idle"
    /\ files[name] = NoFile
    /\ LET n == LowestFree(fdt)
       IN  IF n = -1
           THEN /\ thr' = [thr EXCEPT ![t] = Reply(Start("create", name, -1), -EMFILE)]
                /\ UNCHANGED <<files, fdt>>
           ELSE /\ files' = [files EXCEPT ![name] = <<>>]
                /\ fdt' = [fdt EXCEPT ![n] = [name |-> name, acc |-> "w"]]
                /\ thr' = [thr EXCEPT ![t] = Reply(Start("create", name, n), 0)]
    /\ UNCHANGED <<dirSize, open_files, held, crashed, ioFaults, regVars>>

\* concatfs_release up to the call of close_concat_file
ConcatfsRelease(t, h) ==
    /\ ~crashed
    /\ thr[t].pc = "idle"
    /\ h \in held
    /\ ~InFlight(h.fh, {"read", "write", "release"})
    /\ IF is_concatfs_file(h.name)
       THEN LET e == open_files_erase(open_files, h.fh)
            IN  /\ open_files' = e.list
                /\ thr' = [thr EXCEPT ![t] =
                           [Start("release", h.name, h.fh) EXCEPT
                               !.pc = "close", !.cf = e.rv]]
                /\ fdt' = fdt
       ELSE /\ fdt' = SysClose(fdt, h.fh)
            /\ thr' = [thr EXCEPT ![t] = Reply(Start("release", h.name, h.fh), 0)]
            /\ open_files' = open_files
    /\ UNCHANGED <<files, dirSize, held, crashed, ioFaults, regVars>>

\* close_concat_file(open_files_erase(...)) and return 0
ReleaseClose(t) ==
    /\ ~crashed
    /\ thr[t].pc = "close"
    /\ fdt' = close_concat_file(fdt, thr[t].cf)
    /\ thr' = [thr EXCEPT ![t] = Reply(@, 0)]
    /\ UNCHANGED <<files, dirSize, open_files, held, crashed, ioFaults, regVars>>

\* concatfs_read, and of read_concat_file the lookup, the test against
\* fsize and the walk to the starting chunk
ConcatfsRead(t, h, size, offset) ==
    /\ ~crashed
    /\ thr[t].pc = "idle"
    /\ h \in held
    /\ ~InFlight(h.fh, {"release"})
    /\ LET s == [Start("read", h.name, h.fh) EXCEPT !.size = size, !.off = offset]
       IN  IF is_concatfs_file(h.name)
           THEN LET cf == open_files_find(open_files, h.fh)
                IN  IF cf = NULL THEN thr' = [thr EXCEPT ![t] = Reply(s, -EINVAL)]
                    ELSE IF offset > cf.fsize THEN thr' = [thr EXCEPT ![t] = Reply(s, 0)]
                    ELSE LET w == Walk(cf.chunks, 1, offset)
                         IN  thr' = [thr EXCEPT ![t] =
                                     [s EXCEPT !.pc = "loop", !.cf = cf, !.c = w.c,
                                               !.offset = w.offset, !.count = size]]
           ELSE \E r \in Pread(fdt, h.fh, size, offset) :
                    IF r.rv < 0
                    THEN thr' = [thr EXCEPT ![t] = Reply(s, -r.err)]
                    ELSE thr' = [thr EXCEPT ![t] = Reply([s EXCEPT !.buf = r.data], r.rv)]
    /\ UNCHANGED <<files, dirSize, fdt, open_files, held, crashed, ioFaults, regVars>>

\* The chunk the read stands on.
Cur(r) == r.cf.chunks[r.c]

\* A variant that forgets the segment's start: C1 must tell it from the
\* code's.
PreadPos_NoStart(r) == r.offset

\* The file position of a positional read: offset + c->startOffset
PreadPos(r) == r.offset + Cur(r).startOffset

\* c && count > c->fsize - offset
LoopCond(r) ==
    r.c <= Len(r.cf.chunks) /\ CountExceeds(r.count, Cur(r).fsize - r.offset)

\* The log of the request's positional reads: chunk, descriptor, count and
\* position asked, result, the errno the call set, and whether the call was
\* the one inside the loop.
Logged(r, n, pos, res) ==
    Append(r.preads, [c |-> r.c, fd |-> Cur(r).fd, n |-> n, pos |-> pos,
                      rv |-> res.rv, err |-> res.err, loop |-> LoopCond(r)])

\* errno after a call with outcome res: the call's own when it failed, else
\* whatever the thread held
ErrnoAfter(res) == IF res.rv < 0 THEN {res.err} ELSE StaleErrno

\* A variant that takes every positive count for the whole remainder of the
\* chunk: C15 must tell it from the code's.
FullRead_AnyPositive(rv, n) == rv = n \/ rv > 0

\* if (rv == c->fsize - offset)
FullRead(rv, n) == rv = n

\* One pass of the second for loop of read_concat_file.
ReadLoop(t) ==
    /\ ~crashed
    /\ thr[t].pc = "loop"
    /\ LoopCond(thr[t])
    /\ LET r == thr[t]
           n == Cur(r).fsize - r.offset
           pos == PreadPos(r)
       IN  \E res \in Pread(fdt, Cur(r).fd, n, pos) :
               LET r1 == [r EXCEPT !.preads = Logged(r, n, pos, res)]
               IN  IF FullRead(res.rv, n)
                   THEN thr' = [thr EXCEPT ![t] =
                                [r1 EXCEPT !.buf = @ \o res.data, !.offset = 0,
                                           !.count = @ - res.rv,
                                           !.bytes_read = @ + res.rv,
                                           !.c = @ + 1]]
                   ELSE IF res.rv > 0
                   THEN thr' = [thr EXCEPT ![t] =
                                Reply([r1 EXCEPT !.buf = @ \o res.data,
                                                 !.bytes_read = @ + res.rv],
                                      r.bytes_read + res.rv)]
                   ELSE \E e \in ErrnoAfter(res) :
                            thr' = [thr EXCEPT ![t] = Reply(r1, -e)]
    /\ UNCHANGED <<files, dirSize, fdt, open_files, held, crashed, ioFaults, regVars>>

\* The rest of read_concat_file after the loop.
ReadTail(t) ==
    /\ ~crashed
    /\ thr[t].pc = "loop"
    /\ ~LoopCond(thr[t])
    /\ LET r == thr[t]
       IN  IF r.c <= Len(r.cf.chunks) /\ r.count > 0
           THEN LET pos == PreadPos(r)
                IN  \E res \in Pread(fdt, Cur(r).fd, r.count, pos) :
                        LET r1 == [r EXCEPT !.preads = Logged(r, r.count, pos, res)]
                        IN  IF res.rv < 0
                            THEN thr' = [thr EXCEPT ![t] = Reply(r1, -res.err)]
                            ELSE thr' = [thr EXCEPT ![t] =
                                         Reply([r1 EXCEPT !.buf = @ \o res.data,
                                                          !.bytes_read = @ + res.rv],
                                               r.bytes_read + res.rv)]
           ELSE thr' = [thr EXCEPT ![t] = Reply(r, r.bytes_read)]
    /\ UNCHANGED <<files, dirSize, fdt, open_files, held, crashed, ioFaults, regVars>>

\* A variant that refuses no write: C10 must tell it from the code's.
WriteRefused_Never(name) == FALSE

\* The test that sends a write to the refusal branch.
WriteRefused(name) == is_concatfs_file(name)

\* concatfs_write
ConcatfsWrite(t, h, buf, offset) ==
    /\ ~crashed
    /\ thr[t].pc = "idle"
    /\ h \in held
    /\ ~InFlight(h.fh, {"release"})
    /\ LET s == [Start("write", h.name, h.fh) EXCEPT
                    !.size = Len(buf), !.off = offset]
       IN  IF WriteRefused(h.name)
           THEN /\ thr' = [thr EXCEPT ![t] = Reply(s, -EINVAL)]
                /\ files' = files
           ELSE IF fdt[h.fh] = Closed \/ fdt[h.fh].acc = "r"
           THEN /\ thr' = [thr EXCEPT ![t] = Reply(s, -EBADF)]
                /\ files' = files
           ELSE /\ files' = [files EXCEPT ![fdt[h.fh].name] = Pwrite(@, buf, offset)]
                /\ thr' = [thr EXCEPT ![t] = Reply(s, Len(buf))]
    /\ UNCHANGED <<dirSize, fdt, open_files, held, crashed, ioFaults, regVars>>

\* concatfs_getattr
ConcatfsGetattr(t, name) ==
    /\ ~crashed
    /\ thr[t].pc = "idle"
    /\ LET st == Stat(Fpath(name))
           s == Start("getattr", name, -1)
       IN  IF ~st.ok
           THEN /\ thr' = [thr EXCEPT ![t] = Reply(s, -ENOENT)]
                /\ fdt' = fdt
           ELSE IF is_concatfs_file(name)
           THEN LET g == get_concat_file_size(fdt, Fpath(name))
                IN  /\ thr' = [thr EXCEPT ![t] = Reply([s EXCEPT !.st_size = g.rv], 0)]
                    /\ fdt' = g.fdt
           ELSE /\ thr' = [thr EXCEPT ![t] = Reply([s EXCEPT !.st_size = st.size], 0)]
                /\ fdt' = fdt
    /\ UNCHANGED <<files, dirSize, open_files, held, crashed, ioFaults, regVars>>

\* The reply reaches the kernel, which from then on holds the handle an open
\* or create returned, and no longer holds a released one.
Return(t) ==
    /\ ~crashed
    /\ thr[t].pc = "ret"
    /\ held' = IF thr[t].op \in {"open", "create"} /\ thr[t].rv = 0
               THEN held \cup {[fh |-> thr[t].fh, name |-> thr[t].name]}
               ELSE IF thr[t].op = "release"
               THEN held \ {[fh |-> thr[t].fh, name |-> thr[t].name]}
               ELSE held
    /\ thr' = [thr EXCEPT ![t] = Idle]
    /\ UNCHANGED <<files, dirSize, fdt, open_files, crashed, ioFaults, regVars>>

----------------------------------------------------------------------------
(* The registry functions, one pointer access per step.  A node is named by
   the address of its object; the objects of the calls are those keyed
   RegKeys, each at its own address.  open_files follows as the list the
   calls have built so far, updated where a call leaves its critical
   section. *)

Unlocked == "unlocked"
Nil == 0
RegKeys == 3 .. MaxKey

RegIdle == [pc |-> "idle", op |-> "none", fd |-> Nil, cf |-> Nil, p |-> Nil,
            rv |-> Nil, ret |-> NULL]

\* The object at node n as the registry list of the handlers holds it.
ObjectAt(n) == [fd |-> heap[n].fd, fsize |-> 0, refcount |-> 1, chunks |-> <<>>]

\* A variant in which the mutex never makes a caller wait: C14 must tell it
\* from the code's.
MutexAvailable_Always(l) == TRUE

\* pthread_mutex_lock returns once the mutex is free
MutexAvailable(l) == l = Unlocked

\* A call of open_files_find(fd), open_files_push_front(cf) or
\* open_files_erase(fd) begins; no other call in flight works on the key,
\* and an object pushed is a new one.
RegCall(t, op, k) ==
    /\ rthr[t].pc = "idle"
    /\ \A u \in Threads : rthr[u].pc # "idle" => rthr[u].fd # k
    /\ op = "push" => \A i \in 1 .. Len(open_files) : open_files[i].fd # k
    /\ rthr' = [rthr EXCEPT ![t] =
                [RegIdle EXCEPT !.pc = "lock", !.op = op, !.fd = k,
                                !.cf = IF op = "push" THEN k ELSE Nil]]
    /\ UNCHANGED <<the_lock, head, heap, open_files>>

\* lock()
Lock(t) ==
    /\ rthr[t].pc = "lock"
    /\ MutexAvailable(the_lock)
    /\ the_lock' = t
    /\ rthr' = [rthr EXCEPT ![t].pc = rthr[t].op]
    /\ UNCHANGED <<head, heap, open_files>>

\* open_files_find: cf = open_files
FindInit(t) ==
    /\ rthr[t].pc = "find"
    /\ rthr' = [rthr EXCEPT ![t].cf = head, ![t].pc = "find_test"]
    /\ UNCHANGED <<the_lock, head, heap, open_files>>

\* A variant of the loop test that returns on a hit without unlock(): C21
\* must tell it from the code's.
FindTest_HitKeepsLock(t) ==
    /\ rthr[t].pc = "find_test"
    /\ LET r == rthr[t]
       IN  IF r.cf = Nil
           THEN rthr' = [rthr EXCEPT ![t].rv = Nil, ![t].pc = "unlock"]
           ELSE IF heap[r.cf].fd = r.fd
           THEN rthr' = [rthr EXCEPT ![t].rv = r.cf, ![t].pc = "done",
                                     ![t].ret = open_files_find(open_files, r.fd)]
           ELSE rthr' = [rthr EXCEPT ![t].cf = heap[r.cf].next]
    /\ UNCHANGED <<the_lock, head, heap, open_files>>

\* open_files_find: the loop test, the comparison of cf->fd, cf = cf->next
FindTest(t) ==
    /\ rthr[t].pc = "find_test"
    /\ LET r == rthr[t]
       IN  IF r.cf = Nil
           THEN rthr' = [rthr EXCEPT ![t].rv = Nil, ![t].pc = "unlock"]
           ELSE IF heap[r.cf].fd = r.fd
           THEN rthr' = [rthr EXCEPT ![t].rv = r.cf, ![t].pc = "unlock"]
           ELSE rthr' = [rthr EXCEPT ![t].cf = heap[r.cf].next]
    /\ UNCHANGED <<the_lock, head, heap, open_files>>

\* open_files_push_front: cf->next = open_files
PushLink(t) ==
    /\ rthr[t].pc = "push"
    /\ heap' = [heap EXCEPT ![rthr[t].cf].next = head]
    /\ rthr' = [rthr EXCEPT ![t].pc = "push_head"]
    /\ UNCHANGED <<the_lock, head, open_files>>

\* open_files_push_front: open_files = cf
PushHead(t) ==
    /\ rthr[t].pc = "push_head"
    /\ head' = rthr[t].cf
    /\ rthr' = [rthr EXCEPT ![t].pc = "unlock"]
    /\ UNCHANGED <<the_lock, heap, open_files>>

\* open_files_erase: if (open_files && open_files->fd == fd) rv = open_files
\* else p = open_files
EraseHead(t) ==
    /\ rthr[t].pc = "erase"
    /\ IF head # Nil /\ heap[head].fd = rthr[t].fd
       THEN rthr' = [rthr EXCEPT ![t].rv = head, ![t].pc = "erase_pop"]
       ELSE rthr' = [rthr EXCEPT ![t].p = head, ![t].pc = "erase_scan"]
    /\ UNCHANGED <<the_lock, head, heap, open_files>>

\* open_files_erase: open_files = rv->next
ErasePop(t) ==
    /\ rthr[t].pc = "erase_pop"
    /\ head' = heap[rthr[t].rv].next
    /\ rthr' = [rthr EXCEPT ![t].pc = "erase_clear"]
    /\ UNCHANGED <<the_lock, heap, open_files>>

\* open_files_erase: one pass of the for loop, and if (p) behind it
EraseScan(t) ==
    /\ rthr[t].pc = "erase_scan"
    /\ LET r == rthr[t]
       IN  IF r.p = Nil
           THEN rthr' = [rthr EXCEPT ![t].pc = "erase_clear"]
           ELSE IF heap[r.p].next # Nil /\ heap[heap[r.p].next].fd = r.fd
           THEN rthr' = [rthr EXCEPT ![t].pc = "erase_unlink"]
           ELSE rthr' = [rthr EXCEPT ![t].p = heap[r.p].next]
    /\ UNCHANGED <<the_lock, head, heap, open_files>>

\* open_files_erase: rv = p->next; p->next = p->next->next
EraseUnlink(t) ==
    /\ rthr[t].pc = "erase_unlink"
    /\ LET r == rthr[t]
       IN  /\ rthr' = [rthr EXCEPT ![t].rv = heap[r.p].next, ![t].pc = "erase_clear"]
           /\ heap' = [heap EXCEPT ![r.p].next = heap[heap[r.p].next].next]
    /\ UNCHANGED <<the_lock, head, open_files>>

\* open_files_erase: if (rv) rv->next = 0
EraseClear(t) ==
    /\ rthr[t].pc = "erase_clear"
    /\ heap' = IF rthr[t].rv # Nil
               THEN [heap EXCEPT ![rthr[t].rv].next = Nil] ELSE heap
    /\ rthr' = [rthr EXCEPT ![t].pc = "unlock"]
    /\ UNCHANGED <<the_lock, head, open_files>>

\* unlock(); the call as a whole takes effect on the list of the handlers
Unlock(t) ==
    /\ rthr[t].pc = "unlock"
    /\ the_lock' = Unlocked
    /\ LET r == rthr[t]
       IN  IF r.op = "push"
           THEN /\ open_files' = open_files_push_front(open_files, ObjectAt(r.cf))
                /\ rthr' = [rthr EXCEPT ![t].pc = "done"]
           ELSE IF r.op = "erase"
           THEN /\ open_files' = open_files_erase(open_files, r.fd).list
                /\ rthr' = [rthr EXCEPT ![t].pc = "done",
                                        ![t].ret = open_files_erase(open_files, r.fd).rv]
           ELSE /\ open_files' = open_files
                /\ rthr' = [rthr EXCEPT ![t].pc = "done",
                                        ![t].ret = open_files_find(open_files, r.fd)]
    /\ UNCHANGED <<head, heap>>

\* return
RegReturn(t) ==
    /\ rthr[t].pc = "done"
    /\ rthr' = [rthr EXCEPT ![t] = RegIdle]
    /\ UNCHANGED <<the_lock, head, heap, open_files>>

----------------------------------------------------------------------------
(* Initial states and specifications *)

DataA == <<"a0", "a1", "a2", "a3">>
DataB == <<"b0", "b1">>

RECURSIVE JoinLines(_, _)
\* The text of a description: its lines, each ended by a newline, the last
\* one only when lastNL.
JoinLines(lines, lastNL) ==
    IF lines = <<>> THEN <<>>
    ELSE IF Len(lines) = 1 THEN lines[1] \o (IF lastNL THEN <<NL>> ELSE <<>>)
    ELSE lines[1] \o <<NL>> \o JoinLines(Tail(lines), lastNL)

\* Storage with description text d in m-concat-x.
Storage(d) ==
    [n \in Names |->
        CASE n = "a" -> DataA
          [] n = "b" -> DataB
          [] n = "e" -> <<>>
          [] n = "z" -> NoFile
          [] n = "p" -> <<"p0">>
          [] n = "m-concat-x" -> d
          [] n = "n-concat-y" -> <<"b", NL>>
          [] n = "c-concat-z" -> NoFile]

InitProcess ==
    /\ fdt = [n \in FdNums |-> Closed]
    /\ open_files = <<>>
    /\ held = {}
    /\ thr = [t \in Threads |-> Idle]
    /\ crashed = FALSE
    /\ the_lock = Unlocked
    /\ head = Nil
    /\ heap = [n \in RegKeys |-> [fd |-> n, next |-> Nil]]
    /\ rthr = [t \in Threads |-> RegIdle]

\* Lines a description is drawn from: plain, empty, missing and zero-size
\* paths, and start and length fields absent, unparseable, zero, negative,
\* in range and beyond the backing file.
ParseLineSet ==
    { <<>>,
      <<"a">>,
      <<"b">>,
      <<"e">>,
      <<"z">>,
      <<"a", ":", "1", ":", "2">>,
      <<"a", ":", ":", "7">>,
      <<"b", ":", "9", ":", "0">>,
      <<"a", ":", "-", "2", ":", "x">>,
      <<"/", "s", "/", "b", ":", "1">>,
      <<"a", ":", "x", ":", "-", "1">>,
      <<"a", ":", "0", ":">> }

Descriptions ==
    { JoinLines(ls, nl) :
        ls \in UNION { [1 .. k -> ParseLineSet] : k \in 0 .. MaxLines },
        nl \in BOOLEAN }

DirSizes == {0, 3}

(* Parsing: one thread opens m-concat-x once and queries its attributes. *)
InitParse ==
    /\ InitProcess
    /\ files \in { Storage(d) : d \in Descriptions }
    /\ dirSize \in DirSizes
    /\ ioFaults = FALSE

NextParse ==
    \/ held = {} /\ ConcatfsOpen("t1", "m-concat-x", "r")
    \/ OpenPush("t1")
    \/ ConcatfsGetattr("t1", "m-concat-x")
    \/ Return("t1")

SpecParse == InitParse /\ [][NextParse]_vars

(* Reading: one thread opens m-concat-x once and reads it at every offset
   up to one past its size, while the host may fail or cut short any
   positional read. *)
ReadDescriptions ==
    { JoinLines(<< <<"a">>, <<"b">> >>, TRUE),
      JoinLines(<< <<"a", ":", "1", ":", "2">>, <<"b">>, <<"a">> >>, TRUE),
      JoinLines(<< <<"b", ":", "1">> >>, TRUE),
      JoinLines(<< <<>>, <<"b">> >>, TRUE),
      JoinLines(<< <<"b">>, <<>> >>, TRUE),
      <<>> }

InitRead ==
    /\ InitProcess
    /\ files \in { Storage(d) : d \in ReadDescriptions }
    /\ dirSize \in DirSizes
    /\ ioFaults = TRUE

\* The offsets requested on a handle: up to one past the object's size.
ReadOffsets(h) ==
    LET cf == open_files_find(open_files, h.fh)
    IN  0 .. (IF cf = NULL THEN 0 ELSE cf.fsize + 1)

NextRead ==
    \/ held = {} /\ ConcatfsOpen("t1", "m-concat-x", "r")
    \/ OpenPush("t1")
    \/ \E h \in held : \E size \in 0 .. MaxCount : \E offset \in ReadOffsets(h) :
          ConcatfsRead("t1", h, size, offset)
    \/ ReadLoop("t1")
    \/ ReadTail("t1")
    \/ Return("t1")

SpecRead == InitRead /\ [][NextRead]_vars

(* The filesystem: the kernel's requests on one description, served one
   after the other.  The kernel holds at most MaxHeld handles, sends create
   only for a name that does not exist, sends no request on a handle it is
   releasing, and releases no handle with a request in flight. *)
MainDescription == JoinLines(<< <<"a">>, <<"b", ":", "1">> >>, TRUE)

Init ==
    /\ InitProcess
    /\ files = Storage(MainDescription)
    /\ dirSize \in {Len(SrcDir) + 1}
    /\ ioFaults = FALSE

OpenRequests ==
    { <<"m-concat-x", "r">>, <<"m-concat-x", "w">>, <<"n-concat-y", "r">>,
      <<"p", "rw">> }
CreateNames == {"c-concat-z"}
ReadRequests == { <<2, 1>>, <<2, 3>> }
WriteRequests == { <<(<<"w">>), 0>> }

\* Handles the kernel holds or is about to receive.
Opening == { t \in Threads : thr[t].pc # "idle" /\ thr[t].op \in {"open", "create"} }
MayOpen == Cardinality(held) + Cardinality(Opening) < MaxHeld

\* One worker serves the requests one after the other.
Next ==
    \E t \in {"t1"} :
        \/ MayOpen /\ \E rq \in OpenRequests : ConcatfsOpen(t, rq[1], rq[2])
        \/ OpenPush(t)
        \/ MayOpen /\ \E name \in CreateNames : ConcatfsCreate(t, name)
        \/ \E h \in held : ConcatfsRelease(t, h)
        \/ ReleaseClose(t)
        \/ \E h \in held : \E rq \in ReadRequests : ConcatfsRead(t, h, rq[1], rq[2])
        \/ ReadLoop(t)
        \/ ReadTail(t)
        \/ \E h \in held : \E wq \in WriteRequests : ConcatfsWrite(t, h, wq[1], wq[2])
        \/ \E name \in {"m-concat-x"} : ConcatfsGetattr(t, name)
        \/ Return(t)

Spec == Init /\ [][Next]_vars

(* The multithreaded session loop: both workers serve opens for reading,
   reads and releases of the two virtual files, their steps interleaved. *)
ConcRequests == { <<"m-concat-x", "r">>, <<"n-concat-y", "r">> }

NextConc ==
    \E t \in Threads :
        \/ MayOpen /\ \E rq \in ConcRequests : ConcatfsOpen(t, rq[1], rq[2])
        \/ OpenPush(t)
        \/ \E h \in held : ConcatfsRelease(t, h)
        \/ ReleaseClose(t)
        \/ \E h \in held : \E rq \in ReadRequests : ConcatfsRead(t, h, rq[1], rq[2])
        \/ ReadLoop(t)
        \/ ReadTail(t)
        \/ Return(t)

SpecConc == Init /\ [][NextConc]_vars

(* The registry functions called from both workers on keys of RegKeys, no
   two calls in flight on one key. *)
RegOps == {"find", "push", "erase"}

NextReg ==
    /\ \E t \in Threads :
          \/ \E op \in RegOps : \E k \in RegKeys : RegCall(t, op, k)
          \/ Lock(t)
          \/ FindInit(t)
          \/ FindTest(t)
          \/ PushLink(t)
          \/ PushHead(t)
          \/ EraseHead(t)
          \/ ErasePop(t)
          \/ EraseScan(t)
          \/ EraseUnlink(t)
          \/ EraseClear(t)
          \/ Unlock(t)
          \/ RegReturn(t)
    /\ UNCHANGED <<files, dirSize, fdt, held, thr, crashed, ioFaults>>

SpecReg == Init /\ [][NextReg]_vars

\* The handlers' state, which the registry functions leave alone.
HostUnchanged == UNCHANGED <<files, dirSize, fdt, held, thr, crashed, ioFaults>>

\* The steps of a call between its entry and its return, lock() apart.
RegStep(t) ==
    /\ \/ FindInit(t)
       \/ FindTest(t)
       \/ PushLink(t)
       \/ PushHead(t)
       \/ EraseHead(t)
       \/ ErasePop(t)
       \/ EraseScan(t)
       \/ EraseUnlink(t)
       \/ EraseClear(t)
       \/ Unlock(t)
       \/ RegReturn(t)
    /\ HostUnchanged

\* lock() returning with the mutex
LockStep(t) == Lock(t) /\ HostUnchanged

\* The registry functions under fair scheduling: a thread that can take a
\* step of its call takes it, and a thread in pthread_mutex_lock that finds
\* the mutex free again and again gets it.
SpecRegFair ==
    /\ SpecReg
    /\ \A t \in Threads : WF_vars(RegStep(t)) /\ SF_vars(LockStep(t))

----------------------------------------------------------------------------
(* Vocabulary of the properties *)

RECURSIVE SplitLines(_)
\* The lines of a text, each with its newline when it has one.
SplitLines(data) ==
    IF data = <<>> THEN <<>>
    ELSE LET i == CHOOSE k \in 1 .. Len(data) :
                      /\ data[k] = NL \/ k = Len(data)
                      /\ \A j \in 1 .. k - 1 : data[j] # NL
         IN  <<SubSeq(data, 1, i)>> \o SplitLines(SubSeq(data, i + 1, Len(data)))

RECURSIVE SplitOn(_, _)
\* The fields of a line between separators c.
SplitOn(s, c) ==
    IF \A k \in 1 .. Len(s) : s[k] # c THEN <<s>>
    ELSE LET i == CHOOSE k \in 1 .. Len(s) : s[k] = c /\ \A j \in 1 .. k - 1 : s[j] # c
         IN  <<SubSeq(s, 1, i - 1)>> \o SplitOn(SubSeq(s, i + 1, Len(s)), c)

RECURSIVE SumFsize(_)
SumFsize(chunks) ==
    IF chunks = <<>> THEN 0 ELSE chunks[1].fsize + SumFsize(Tail(chunks))

\* The description text behind a registered object.
TextOf(cf) == files[fdt[cf.fd].name]

EveryLineEnded(data) == data = <<>> \/ data[Len(data)] = NL

\* The path the parser resolves a line to: the text handed to stat(2).
LinePath(raw) == SplitOn(Tpath(StripLast(raw), SrcDir), ":")[1]

\* A line whose resolved path stats to a file of size >= 1.
Usable(raw) == Stat(LinePath(raw)).ok /\ Stat(LinePath(raw)).size >= 1

UsableLines(data) == SelectSeq(SplitLines(data), Usable)

\* The size of the file behind a chunk's descriptor.
BackingSize(ch) ==
    IF fdt[ch.fd].name = Dir THEN dirSize ELSE Len(files[fdt[ch.fd].name])

\* The start and length fields of a line, <<>> when absent.
StartField(raw) ==
    LET f == SplitOn(StripLast(raw), ":") IN IF Len(f) >= 2 THEN f[2] ELSE <<>>
LengthField(raw) ==
    LET f == SplitOn(StripLast(raw), ":") IN IF Len(f) >= 3 THEN f[3] ELSE <<>>

Registered == { open_files[i] : i \in 1 .. Len(open_files) }

RECURSIVE Flatten(_)
Flatten(seqs) == IF seqs = <<>> THEN <<>> ELSE seqs[1] \o Flatten(Tail(seqs))

\* A text without its blank lines.
WithoutBlankLines(data) ==
    Flatten(SelectSeq(SplitLines(data), LAMBDA l : l # <<NL>>))

\* The size a size-only parse of text data in the source directory gives.
SizeOnly(data) ==
    ParseLines(data, 1, Dirname(Fpath("m-concat-x")), -1,
               [fd |-> -1, fsize |-> 0, refcount |-> 1, chunks |-> <<>>],
               fdt).rv.fsize

\* The bytes a chunk stands for: its slice of the backing file ("?" where
\* the descriptor has no readable file behind it).
Slice(ch) ==
    IF ch.fd \notin FdNums \/ fdt[ch.fd] = Closed \/ fdt[ch.fd].name = Dir
    THEN [i \in 1 .. ch.fsize |-> "?"]
    ELSE SubSeq(files[fdt[ch.fd].name], ch.startOffset + 1,
                ch.startOffset + ch.fsize)

RECURSIVE Concatenation(_)
\* The virtual content: the slices in list order.
Concatenation(chunks) ==
    IF chunks = <<>> THEN <<>>
    ELSE Slice(chunks[1]) \o Concatenation(Tail(chunks))

\* A chunk whose descriptor reads a regular file.
Readable(ch) ==
    ch.fd \in FdNums /\ fdt[ch.fd] # Closed /\ fdt[ch.fd].name # Dir

ReadDone(t) ==
    thr[t].pc = "ret" /\ thr[t].op = "read" /\ thr[t].name \in VirtualNames

\* The registered object of the handle a thread works on.
OwnObject(t) == CHOOSE cf \in Registered : cf.fd = thr[t].fh

\* Every positional read of the request delivered what it was asked for.
NoIoError(t) ==
    \A i \in 1 .. Len(thr[t].preads) : thr[t].preads[i].rv = thr[t].preads[i].n

Quiescent == \A t \in Threads : thr[t].pc = "idle"

VirtualHeld == { h \in held : h.name \in VirtualNames }

GetattrDone(t) == thr[t].pc = "ret" /\ thr[t].op = "getattr" /\ thr[t].rv = 0

----------------------------------------------------------------------------
(* Properties of the parser, under SpecParse *)

\* C5: the size getattr reports (size-only parse) equals the total size of
\* the object a full open of the same description built, and the object's
\* fsize is the sum of the fsize of its chunks; the chunks are the accepted
\* segments.
C5_SizeAgrees ==
    /\ \A cf \in Registered : cf.fsize = SumFsize(cf.chunks)
    /\ \A t \in Threads : \A cf \in Registered :
          GetattrDone(t) /\ thr[t].name = fdt[cf.fd].name
              => /\ thr[t].st_size = cf.fsize
                 /\ thr[t].st_size = SumFsize(cf.chunks)

C5_Witness ==
    \E cf \in Registered :
       /\ GetattrDone("t1")
       /\ Len(cf.chunks) >= 2
       /\ cf.chunks[1].fsize # cf.chunks[2].fsize
       /\ thr["t1"].st_size = cf.fsize

\* C6: a blank line contributes no segment and nothing to the size, for the
\* full parse and for the size-only parse: both see what the description
\* without its blank lines gives.  (Stated for descriptions whose every line
\* ends with a newline.)
C6_BlankLineIgnored ==
    /\ \A cf \in Registered :
          EveryLineEnded(TextOf(cf)) =>
              Len(cf.chunks) =
                  Len(SelectSeq(UsableLines(TextOf(cf)), LAMBDA l : l # <<NL>>))
    /\ \A t \in Threads :
          GetattrDone(t) /\ EveryLineEnded(files[thr[t].name]) =>
              thr[t].st_size = SizeOnly(WithoutBlankLines(files[thr[t].name]))

C8_SegmentWithinFile ==
    \A cf \in Registered :
        LET ls == UsableLines(TextOf(cf))
        IN  \A i \in 1 .. Len(cf.chunks) :
                LET ch == cf.chunks[i]
                    size == BackingSize(ch)
                IN  /\ 0 <= ch.startOffset /\ ch.startOffset <= size - 1
                    /\ 1 <= ch.fsize /\ ch.fsize <= size - ch.startOffset
                    /\ ch.startOffset + ch.fsize <= size
                    /\ i <= Len(ls) /\ StartField(ls[i]) = <<>> => ch.startOffset = 0
                    /\ i <= Len(ls) /\ LengthField(ls[i]) = <<>>
                           => ch.fsize = size - ch.startOffset

C8_Witness ==
    \E cf \in Registered :
       /\ Len(cf.chunks) = 2
       /\ TextOf(cf) = JoinLines(<< <<"b", ":", "9", ":", "0">>,
                                    <<"a", ":", "-", "2", ":", "x">> >>, TRUE)
       /\ cf.chunks[1].startOffset = 1 /\ cf.chunks[1].fsize = 1
       /\ cf.chunks[2].startOffset = 0 /\ cf.chunks[2].fsize = 4

----------------------------------------------------------------------------
(* Properties of the read engine, under SpecRead *)

\* C1: a read with offset + count <= total size on a fully opened object,
\* none of whose positional reads failed or came back short, returns count,
\* and the buffer holds bytes [offset, offset + count) of the concatenation
\* of the slices in description order.
C1_ReadReturnsConcatenation ==
    \A t \in Threads :
        (/\ ReadDone(t)
         /\ \E cf \in Registered : cf.fd = thr[t].fh
         /\ thr[t].off + thr[t].size <= OwnObject(t).fsize
         /\ NoIoError(t))
        => /\ thr[t].rv = thr[t].size
           /\ thr[t].buf = SubSeq(Concatenation(OwnObject(t).chunks),
                                  thr[t].off + 1, thr[t].off + thr[t].size)

\* A request that starts inside a segment with a nonzero start, crosses the
\* whole second segment and ends in the third.
C1_Witness ==
    /\ ReadDone("t1")
    /\ NoIoError("t1")
    /\ thr["t1"].off = 1 /\ thr["t1"].size = 4 /\ thr["t1"].rv = 4
    /\ Len(thr["t1"].preads) = 3
    /\ thr["t1"].buf = <<"a2", "b0", "b1", "a0">>

----------------------------------------------------------------------------
(* Properties of the handle life cycle, under Spec *)

\* C2: an open of a virtual path whose parse yields no object returns
\* success and leaves the registry well formed: no step of the open
\* dereferences the missing object, so the process never receives SIGSEGV.
C2_OpenWithoutObjectSucceeds ==
    /\ ~crashed
    /\ \A t \in Threads :
          thr[t].pc = "ret" /\ thr[t].op = "open" /\ thr[t].name \in VirtualNames
          /\ thr[t].fh >= 0 => thr[t].rv = 0

\* C3: at every quiescent point the keys of the registry are exactly the
\* handles returned for a virtual path and not yet released.
C3_RegistryIsHeldHandles ==
    Quiescent => { cf.fd : cf \in Registered } = { h.fh : h \in VirtualHeld }

\* C4: a completed release of a virtual handle has closed the handle's
\* descriptor and unregistered it, and once every virtual handle is
\* released the process holds no descriptor but those of held plain files.
C4_ReleaseClosesEverything ==
    /\ \A t \in Threads :
          thr[t].pc = "ret" /\ thr[t].op = "release" /\ thr[t].name \in VirtualNames
              => /\ fdt[thr[t].fh] = Closed
                 /\ \A cf \in Registered : cf.fd # thr[t].fh
    /\ Quiescent /\ VirtualHeld = {}
          => \A d \in FdNums : fdt[d] # Closed => \E h \in held : h.fh = d

\* C10: a write on a virtual path replies invalid-argument, and the step
\* changes neither the registry and its objects nor any file nor any
\* descriptor.
C10_WriteOnVirtualRefused ==
    [][\A t \in Threads :
          thr[t].pc = "idle" /\ thr'[t].op = "write" /\ thr'[t].name \in VirtualNames
              => /\ thr'[t].pc = "ret" /\ thr'[t].rv = -EINVAL
                 /\ UNCHANGED <<files, open_files, fdt>>]_vars

\* A refused write through a handle whose descriptor is open for writing.
C10_Witness ==
    \E t \in Threads :
       /\ thr[t].pc = "ret" /\ thr[t].op = "write" /\ thr[t].rv = -EINVAL
       /\ thr[t].name = "c-concat-z"
       /\ fdt[thr[t].fh] # Closed /\ fdt[thr[t].fh].acc = "w"
       /\ thr[t].size = 1

----------------------------------------------------------------------------
(* Properties of concurrent reads, under SpecConc *)

\* C9: a read served while other handles are open, read, opened and released
\* by another thread uses the chunks of its own handle's object only and
\* returns that object's bytes at the requested offset; and no step of a
\* read changes the registry, a descriptor or a file.
C9_ReadOwnObject ==
    \A t \in Threads :
        ReadDone(t) /\ thr[t].rv >= 0 =>
            LET cf == OwnObject(t)
            IN  /\ \E o \in Registered : o.fd = thr[t].fh
                /\ \A i \in 1 .. Len(thr[t].preads) :
                      LET p == thr[t].preads[i]
                      IN  p.c <= Len(cf.chunks) /\ p.fd = cf.chunks[p.c].fd
                /\ thr[t].buf = SubSeq(Concatenation(cf.chunks),
                                       thr[t].off + 1, thr[t].off + thr[t].rv)
                /\ (\A i \in 1 .. Len(cf.chunks) : Readable(cf.chunks[i]))
                      => thr[t].rv = MIN(thr[t].size, MAX(0, cf.fsize - thr[t].off))

C9_ReadChangesNothing ==
    \A t \in Threads :
        thr'[t].op = "read" /\ thr'[t] # thr[t] /\ thr'[t].pc # "idle"
            => UNCHANGED <<files, open_files, fdt, held>>

C9_ConcurrentReads == []C9_ReadOwnObject /\ [][C9_ReadChangesNothing]_vars

\* Both threads have a read answered at once, on different handles of
\* different virtual files that share backing file b, one of them across a
\* segment boundary.
C9_Witness ==
    /\ ReadDone("t1") /\ ReadDone("t2")
    /\ thr["t1"].fh # thr["t2"].fh
    /\ thr["t1"].name = "m-concat-x" /\ thr["t2"].name = "n-concat-y"
    /\ Len(thr["t1"].preads) = 2
    /\ thr["t1"].buf = <<"a3", "b1">>
    /\ thr["t2"].buf = <<"b1">>

----------------------------------------------------------------------------
(* Properties of getattr, under SpecParse *)

\* The size-only parse of the description as it stands.
SizeOnlyParse ==
    ParseLines(files["m-concat-x"], 1, Dirname(Fpath("m-concat-x")), -1,
               [fd |-> -1, fsize |-> 0, refcount |-> 1, chunks |-> <<>>], fdt)

C11_NoBackingDescriptor ==
    SizeOnlyParse.fdt = fdt /\ SizeOnlyParse.rv.chunks = <<>>

C11_GetattrStep ==
    \A t \in Threads :
        thr[t].pc = "idle" /\ thr'[t].op = "getattr"
            => UNCHANGED <<fdt, open_files, files, held>>

\* C11: getattr on a virtual path opens no backing descriptor (its parse
\* builds no chunk and leaves the descriptor table as it found it) and the
\* step changes neither the descriptor table nor the registry, whatever the
\* description and however often it is called.
C11_GetattrChangesNothing ==
    []C11_NoBackingDescriptor /\ [][C11_GetattrStep]_vars

\* A getattr answered with the size of two segments while an object of the
\* same description is registered.
C11_Witness ==
    /\ GetattrDone("t1")
    /\ thr["t1"].st_size = Len(DataA) + Len(DataB)
    /\ Len(open_files) = 1
    /\ Len(open_files[1].chunks) = 2

----------------------------------------------------------------------------
(* Properties of reads at and beyond the end, under SpecRead *)

\* C12: a read on a registered handle at an offset equal to or greater than
\* the object's total size returns 0 and delivers no byte, for every count.
C12_ReadAtEndReturnsZero ==
    \A t \in Threads :
        (/\ ReadDone(t)
         /\ \E cf \in Registered : cf.fd = thr[t].fh
         /\ thr[t].off >= OwnObject(t).fsize)
        => thr[t].rv = 0 /\ thr[t].buf = <<>>

----------------------------------------------------------------------------
(* Properties of the registry under interleaved opens and releases, under
   SpecConc *)

\* C13: the registry never holds two objects with the same key; every key
\* is a descriptor the process holds open, and a release in progress has
\* taken its object out of the registry while the object's descriptor is
\* still open, so the number cannot have gone to a later open.
C13_KeysDistinct ==
    /\ \A i, j \in 1 .. Len(open_files) :
          i # j => open_files[i].fd # open_files[j].fd
    /\ \A cf \in Registered : cf.fd \in FdNums /\ fdt[cf.fd] # Closed
    /\ \A t \in Threads :
          thr[t].pc = "close" /\ thr[t].cf # NULL
              => /\ fdt[thr[t].cf.fd] # Closed
                 /\ \A cf \in Registered : cf.fd # thr[t].cf.fd

\* Two objects of the same description registered at once, the later one
\* under a descriptor number lower than the earlier one's: a number freed by
\* a release has been handed out again.
C13_Witness ==
    /\ Len(open_files) = 2
    /\ open_files[1].fd < open_files[2].fd
    /\ fdt[open_files[1].fd].name = "m-concat-x"
    /\ fdt[open_files[2].fd].name = "m-concat-x"

----------------------------------------------------------------------------
(* Properties of the registry functions at pointer level, under SpecReg *)

RECURSIVE NodesFrom(_, _)
\* The nodes reached from n along next, at most fuel of them.
NodesFrom(n, fuel) ==
    IF n = Nil \/ fuel = 0 THEN <<>>
    ELSE <<n>> \o NodesFrom(heap[n].next, fuel - 1)

\* The list hanging from the head, cut after one node more than there are.
ListNodes == NodesFrom(head, Cardinality(RegKeys) + 1)

ListKeys == [i \in 1 .. Len(ListNodes) |-> heap[ListNodes[i]].fd]

\* Acyclic, no node reachable twice.
WellFormedList ==
    /\ Len(ListNodes) <= Cardinality(RegKeys)
    /\ \A i, j \in 1 .. Len(ListNodes) : i # j => ListNodes[i] # ListNodes[j]

\* Positions of a call between lock() and unlock().
InCriticalSection(t) == rthr[t].pc \notin {"idle", "lock", "done"}

\* C14: under any interleaving of find, push_front and erase calls on
\* different keys the list stays acyclic without a node reachable twice;
\* whenever the mutex is free it holds, in order, exactly the objects
\* pushed and not erased; a finished push has its object linked, a finished
\* erase has detached and returned the object of its key only (none, and no
\* change, for an absent key), a finished find returns the object of its key
\* or none; and a thread reads or writes the head or a next pointer only
\* while it holds the mutex.
C14_RegistryListSafe ==
    /\ WellFormedList
    /\ the_lock = Unlocked =>
          ListKeys = [i \in 1 .. Len(open_files) |-> open_files[i].fd]
    /\ \A t \in Threads : InCriticalSection(t) => the_lock = t
    /\ \A t \in Threads :
          rthr[t].pc = "done" =>
              LET r == rthr[t]
                  linked == \E i \in 1 .. Len(ListKeys) : ListKeys[i] = r.fd
              IN  /\ r.op = "push" => linked
                  /\ r.op = "erase" =>
                        /\ ~linked
                        /\ (r.rv = Nil) = (r.ret = NULL)
                        /\ r.rv # Nil => /\ heap[r.rv].fd = r.fd
                                         /\ heap[r.rv].next = Nil
                                         /\ r.ret = ObjectAt(r.rv)
                  /\ r.op = "find" =>
                        /\ (r.rv # Nil) = linked
                        /\ (r.rv = Nil) = (r.ret = NULL)
                        /\ r.rv # Nil => heap[r.rv].fd = r.fd

\* One thread has erased an object from behind the head of the list while
\* the other, inside its critical section, is about to publish a pushed
\* object.
C14_Witness ==
    /\ rthr["t1"].pc = "done" /\ rthr["t1"].op = "erase"
    /\ rthr["t1"].rv # Nil /\ rthr["t1"].p # Nil
    /\ rthr["t2"].pc = "push_head"
    /\ Len(ListNodes) >= 1

----------------------------------------------------------------------------
(* Properties of reads whose positional reads fall short or fail, under
   SpecRead *)

RECURSIVE SumRv(_)
\* The bytes the logged positional reads delivered.
SumRv(preads) ==
    IF preads = <<>> THEN 0
    ELSE MAX(preads[1].rv, 0) + SumRv(Tail(preads))

\* The positional read i of thread t came back short: 0 < rv < n.
ShortAt(t, i) ==
    thr[t].preads[i].rv > 0 /\ thr[t].preads[i].rv < thr[t].preads[i].n

\* C15: a positional read that returns a positive count smaller than asked
\* is the last one of its request: the read returns at once, with the bytes
\* of the fully read earlier segments plus the short count.
C15_ShortReadIsTerminal ==
    \A t \in Threads : \A i \in 1 .. Len(thr[t].preads) :
        ShortAt(t, i) =>
            /\ i = Len(thr[t].preads)
            /\ thr[t].pc = "ret"
            /\ \A j \in 1 .. i - 1 : thr[t].preads[j].rv = thr[t].preads[j].n
            /\ thr[t].rv = SumRv(thr[t].preads)
            /\ Len(thr[t].buf) = thr[t].rv

\* A request for 4 bytes whose second positional read, inside the loop,
\* delivered 1 of the 2 bytes of its segment: the read returns 2.
C15_Witness ==
    /\ ReadDone("t1")
    /\ thr["t1"].size = 4
    /\ Len(thr["t1"].preads) = 2
    /\ thr["t1"].preads[1].rv = 1 /\ thr["t1"].preads[1].n = 1
    /\ thr["t1"].preads[2].n = 2 /\ thr["t1"].preads[2].rv = 1
    /\ thr["t1"].rv = 2

\* Every segment of the object a request works on is an open regular file.
AllReadable(t) ==
    thr[t].cf # NULL /\ \A i \in 1 .. Len(thr[t].cf.chunks) : Readable(thr[t].cf.chunks[i])

\* The last positional read of an answered request.
LastPread(t) == thr[t].preads[Len(thr[t].preads)]

\* C16: when a positional read fails after earlier segments of the request
\* were read, the read returns the bytes accumulated so far, a count >= 0.
C16_ErrorAfterPartialReturnsBytes ==
    \A t \in Threads :
        (/\ ReadDone(t)
         /\ AllReadable(t)
         /\ Len(thr[t].preads) >= 2
         /\ LastPread(t).rv < 0
         /\ SumRv(thr[t].preads) > 0)
        => thr[t].rv = SumRv(thr[t].preads)

\* C17: when a positional read of the loop that asked for at least one byte
\* returns zero or fails, the read returns a negative code, that of the
\* failed positional read.
C17_LoopFailureReturnsError ==
    \A t \in Threads :
        (/\ ReadDone(t)
         /\ AllReadable(t)
         /\ thr[t].preads # <<>>
         /\ LastPread(t).loop
         /\ LastPread(t).n > 0
         /\ LastPread(t).rv <= 0)
        => /\ thr[t].rv < 0
           /\ LastPread(t).rv < 0 => thr[t].rv = -LastPread(t).err
           /\ LastPread(t).rv = 0 => thr[t].rv \notin {-ENOENT, -EBADF}

\* C18: a read without I/O error issues no positional read of zero bytes
\* and at most one per segment, and the walk leaves the in-segment offset
\* of the starting segment strictly below the segment's length.
C18_MinimumPreads ==
    \A t \in Threads :
        /\ (thr[t].pc = "loop" /\ thr[t].preads = <<>> /\ AllReadable(t)
            /\ thr[t].count > 0 /\ thr[t].c <= Len(thr[t].cf.chunks))
              => thr[t].offset < Cur(thr[t]).fsize
        /\ (ReadDone(t) /\ AllReadable(t) /\ NoIoError(t)) =>
              /\ \A i \in 1 .. Len(thr[t].preads) : thr[t].preads[i].n > 0
              /\ \A i, j \in 1 .. Len(thr[t].preads) :
                    i # j => thr[t].preads[i].c # thr[t].preads[j].c

----------------------------------------------------------------------------
(* A backing file that cannot be opened, under Spec *)

\* C19: no registered object has a segment with an invalid descriptor, and
\* no read issues a positional read on one.
C19_NoInvalidDescriptor ==
    /\ \A cf \in Registered : \A i \in 1 .. Len(cf.chunks) :
          cf.chunks[i].fd \in FdNums
    /\ \A t \in Threads : \A i \in 1 .. Len(thr[t].preads) :
          thr[t].preads[i].fd \in FdNums

----------------------------------------------------------------------------
(* The last line of a description, under SpecParse *)

\* The segments of a parse result p as [name, startOffset, fsize].
SegmentsOf(p) ==
    [i \in 1 .. Len(p.rv.chunks) |->
        [name |-> IF p.rv.chunks[i].fd \in FdNums
                  THEN p.fdt[p.rv.chunks[i].fd].name ELSE NoEnt,
         startOffset |-> p.rv.chunks[i].startOffset,
         fsize |-> p.rv.chunks[i].fsize]]

\* A full parse of text data in the source directory, from an empty
\* descriptor table.
FullParse(data) ==
    ParseLines(data, 1, Dirname(Fpath("m-concat-x")), MaxFd,
               [fd |-> MaxFd, fsize |-> 0, refcount |-> 1, chunks |-> <<>>],
               [n \in FdNums |-> Closed])

\* C20: a description whose last line has no newline gives the segments
\* (path, start, length) of the same description with the newline added.
C20_UnterminatedLastLine ==
    \A cf \in Registered :
        ~EveryLineEnded(TextOf(cf)) =>
            SegmentsOf([rv |-> cf, fdt |-> fdt])
                = SegmentsOf(FullParse(TextOf(cf) \o <<NL>>))

----------------------------------------------------------------------------
(* The registry mutex, under SpecRegFair *)

\* A thread holds the mutex exactly while it is between lock() and unlock(),
\* and a thread that holds it can always take its next step.
MutexHeldInsideOnly ==
    \A t \in Threads :
        /\ (the_lock = t) = InCriticalSection(t)
        /\ InCriticalSection(t) => ENABLED RegStep(t)

\* The mutex is taken only by a thread in lock() that does not hold it and
\* finds it free, given up only by its holder on the way to the return, and
\* a call neither re-enters lock() nor its critical section.
MutexOncePerCall ==
    \A t \in Threads :
        /\ (the_lock # t /\ the_lock' = t) =>
              rthr[t].pc = "lock" /\ the_lock = Unlocked
        /\ (the_lock = t /\ the_lock' # t) =>
              rthr[t].pc = "unlock" /\ rthr'[t].pc = "done" /\ the_lock' = Unlocked
        /\ rthr[t].pc = "lock" => ~InCriticalSection(t) \/ the_lock' = t
        /\ InCriticalSection(t) => rthr'[t].pc \notin {"idle", "lock"}
        /\ rthr[t].pc = "done" => rthr'[t].pc \in {"done", "idle"}

----------------------------------------------------------------------------
(* The positional reads and the slices, under SpecRead *)

RECURSIVE SumN(_)
\* The bytes the logged positional reads asked for.
SumN(preads) ==
    IF preads = <<>> THEN 0 ELSE preads[1].n + SumN(Tail(preads))

\* Positional read e of a request on object cf asks for bytes of the slice
\* of its chunk only.
InsideSlice(cf, e) ==
    /\ e.c \in 1 .. Len(cf.chunks)
    /\ e.fd = cf.chunks[e.c].fd
    /\ e.n >= 0
    /\ cf.chunks[e.c].startOffset <= e.pos
    /\ e.pos + e.n <= cf.chunks[e.c].startOffset + cf.chunks[e.c].fsize

\* C22: every positional read of a read request, whatever its count and
\* offset, asks for a range inside the slice of the chunk it is issued on;
\* the counts asked in one request sum to at most the request's count; and
\* the bytes put in the buffer are those of the slices from the request's
\* offset on, none from outside a slice.
C22_PreadsInsideSlices ==
    \A t \in Threads :
        thr[t].preads # <<>> =>
            /\ \A i \in 1 .. Len(thr[t].preads) :
                  InsideSlice(thr[t].cf, thr[t].preads[i])
            /\ SumN(thr[t].preads) <= thr[t].size
            /\ AllReadable(t) =>
                  thr[t].buf = SubSeq(Concatenation(thr[t].cf.chunks),
                                      thr[t].off + 1, thr[t].off + Len(thr[t].buf))

\* A request that starts in the last segment and asks for more than is
\* left of the object: one positional read, of the rest of that segment.
C22_Witness ==
    /\ ReadDone("t1")
    /\ AllReadable("t1")
    /\ thr["t1"].off + thr["t1"].size > thr["t1"].cf.fsize
    /\ Len(thr["t1"].cf.chunks) = 3
    /\ thr["t1"].cf.chunks[1].startOffset = 1
    /\ thr["t1"].off = 6 /\ thr["t1"].size = 4 /\ thr["t1"].rv = 2
    /\ Len(thr["t1"].preads) = 1
    /\ thr["t1"].preads[1].c = 3
    /\ thr["t1"].preads[1].n = 2 /\ thr["t1"].preads[1].pos = 2
    /\ thr["t1"].buf = <<"a2", "a3">>

====
